---------------------------- MODULE Spec2Model ----------------------------
(***************************************************************************)
(* Model of src/blocks/backlight.rs: the backlight block of i3status-rust. *)
(*                                                                         *)
(* Text is a sequence of one-character strings: the file content "128\n"   *)
(* is <<"1","2","8","\n">>, the widget text "50%" is <<"5","0","%">>.      *)
(***************************************************************************)
EXTENDS Integers, Sequences, FiniteSets, TLC

(***************************************************************************)
(* Bounds of the model.                                                    *)
(***************************************************************************)
\* brightness values the environment writes in SpecCalc: 0..MaxBrightness
MaxBrightness == 104
\* blocks constructed in Spec and FairSpec
MaxBlocks == 2
\* writes the environment makes to brightness files in Spec and FairSpec
MaxWrites == 2

(***************************************************************************)
(* Text helpers.                                                           *)
(***************************************************************************)
Digits == <<"0", "1", "2", "3", "4", "5", "6", "7", "8", "9">>

IsDigit(c) == \E i \in 1..10 : Digits[i] = c

DigitVal(c) == (CHOOSE i \in 1..10 : Digits[i] = c) - 1

\* String::pop: removes the last character, if there is one
Pop(s) == IF Len(s) = 0 THEN s ELSE SubSeq(s, 1, Len(s) - 1)

\* core::num from_str_radix for an unsigned type, left to right:
\* acc = acc * 10 + digit.  The result is -1 for Err(ParseIntError).
\* (Every text of the model is far shorter than the 20 digits of u64::MAX,
\* so the checked_mul/checked_add overflow branch is never taken.)
RECURSIVE ParseDigits(_, _)
ParseDigits(s, acc) ==
    IF Len(s) = 0 THEN acc
    ELSE IF ~IsDigit(Head(s)) THEN -1
    ELSE ParseDigits(Tail(s), acc * 10 + DigitVal(Head(s)))

\* str::parse::<u64>: empty is an error, one leading "+" is accepted (and
\* must be followed by a digit), "-" is not a digit of an unsigned type.
ParseU64(s) ==
    IF Len(s) = 0 THEN -1
    ELSE IF Head(s) = "+"
         THEN IF Len(s) = 1 THEN -1 ELSE ParseDigits(Tail(s), 0)
         ELSE ParseDigits(s, 0)

\* Display for u64: the decimal digits, most significant first, no padding
RECURSIVE FormatU64(_)
FormatU64(n) ==
    IF n < 10 THEN <<Digits[n + 1]>>
    ELSE Append(FormatU64(n \div 10), Digits[(n % 10) + 1])

(***************************************************************************)
(* IEEE-754 binary64 arithmetic of line 180,                               *)
(*     ((brightness as f64 / max_brightness as f64) * 100.0) as u64        *)
(* computed exactly on integers.  A positive double is kept as its integer *)
(* part and 52 fraction bits in four limbs of 13 bits,                     *)
(*     <<I, L1, L2, L3, L4>>  =  I + L1/2^13 + L2/2^26 + L3/2^39 + L4/2^52 *)
(* times a power of two kept by the caller.                                *)
(***************************************************************************)
Limb == 8192

RECURSIVE Pow2(_)
Pow2(n) == IF n = 0 THEN 1 ELSE 2 * Pow2(n - 1)

\* least i with m <= b * 2^i   (b <= m: the quotient is in [2^-i, 2^(1-i)))
RECURSIVE ShiftUp(_, _)
ShiftUp(b, m) == IF b >= m THEN 0 ELSE 1 + ShiftUp(2 * b, m)

\* greatest j with m * 2^j <= b   (b >= m: the quotient is in [2^j, 2^(j+1)))
RECURSIVE ShiftDown(_, _)
ShiftDown(b, m) == IF b < 2 * m THEN 0 ELSE 1 + ShiftDown(b, 2 * m)

\* x + 2^-52 * inc, the carry running from the last limb to the integer part
AddUlp(x, inc) ==
    LET t4 == x[5] + inc
        t3 == x[4] + (t4 \div Limb)
        t2 == x[3] + (t3 \div Limb)
        t1 == x[2] + (t2 \div Limb)
    IN  <<x[1] + (t1 \div Limb), t1 % Limb, t2 % Limb, t3 % Limb, t4 % Limb>>

\* B / M for M <= B < 2M, rounded to 53 significant bits, ties to even
DivF64(B, M) ==
    LET r0 == B - M
        l1 == (r0 * Limb) \div M
        r1 == (r0 * Limb) % M
        l2 == (r1 * Limb) \div M
        r2 == (r1 * Limb) % M
        l3 == (r2 * Limb) \div M
        r3 == (r2 * Limb) % M
        l4 == (r3 * Limb) \div M
        r4 == (r3 * Limb) % M
        up == (2 * r4 > M) \/ (2 * r4 = M /\ l4 % 2 = 1)
    IN  AddUlp(<<1, l1, l2, l3, l4>>, IF up THEN 1 ELSE 0)

\* x * 100.0 for x in [1, 2], rounded to 53 significant bits, ties to even:
\* the exact product has an integer part of 7 or 8 bits, so the last 6 or 7
\* of its 52 fraction bits are rounded away
MulF64By100(x) ==
    LET t4 == x[5] * 100
        t3 == x[4] * 100 + (t4 \div Limb)
        t2 == x[3] * 100 + (t3 \div Limb)
        t1 == x[2] * 100 + (t2 \div Limb)
        ip == x[1] * 100 + (t1 \div Limb)
        l4 == t4 % Limb
        d  == IF ip < 128 THEN 64 ELSE 128
        lo == l4 % d
        kp == l4 \div d
        up == (2 * lo > d) \/ (2 * lo = d /\ kp % 2 = 1)
    IN  AddUlp(<<ip, t1 % Limb, t2 % Limb, t3 % Limb, l4 - lo>>,
               IF up THEN d ELSE 0)

\* (b as f64 / m as f64) * 100.0 truncated toward zero, for b > 0 and m > 0
TruncPercentF64(b, m) ==
    IF b < m
    THEN LET i == ShiftUp(b, m)
             p == MulF64By100(DivF64(b * Pow2(i), m))
         IN  p[1] \div Pow2(i)
    ELSE LET j == ShiftDown(b, m)
             p == MulF64By100(DivF64(b, m * Pow2(j)))
         IN  p[1] * Pow2(j) + (p[2] \div Pow2(13 - j))


(***************************************************************************)
(* The file system the block reads.                                        *)
(***************************************************************************)
Devices == {"intel_backlight", "acpi_video0"}

\* a file: one that cannot be opened, one whose bytes are not UTF-8 text
\* (read_to_string fails), or text
Absent == [kind |-> "absent", content |-> <<>>]
Binary == [kind |-> "binary", content |-> <<>>]
Text(s) == [kind |-> "text", content |-> s]

NL == "\n"

Ok(v) == [ok |-> TRUE, val |-> v, err |-> ""]
Err(e) == [ok |-> FALSE, val |-> 0, err |-> e]

\* a faulty variant of read_brightness: only a trailing newline is removed
read_brightness_trim(file) ==
    IF file.kind = "absent" THEN Err("Failed to open brightness file")
    ELSE IF file.kind = "binary" THEN Err("Failed to read brightness file")
    ELSE LET c == file.content
             v == ParseU64(IF Len(c) > 0 /\ c[Len(c)] = NL THEN Pop(c) ELSE c)
         IN  IF v < 0 THEN Err("Failed to read value from brightness file")
             ELSE Ok(v)

\* fn read_brightness(device_file) -> Result<u64>
read_brightness(file) ==
    IF file.kind = "absent" THEN Err("Failed to open brightness file")
    ELSE IF file.kind = "binary" THEN Err("Failed to read brightness file")
    ELSE LET v == ParseU64(Pop(file.content))
         IN  IF v < 0 THEN Err("Failed to read value from brightness file")
             ELSE Ok(v)

VARIABLES
    dir,      \* /sys/class/backlight: [present, entries], in listing order
    maxFile,  \* the max_brightness file of each device
    brFile,   \* the brightness file of each device
    blocks,   \* the Backlight values constructed: [id, output, device]
    threads,  \* the watcher threads spawned: [id, file, pc, watching, events]
    chan,     \* the Tasks sent on tx_update_request, oldest first
    ret,      \* what the last call in the scheduler context returned
    hist      \* history: counts of writes and events, per watcher thread

vars == <<dir, maxFile, brFile, blocks, threads, chan, ret, hist>>

\* the value a call returns: Result, plus the widget view() hands out
Ret(op, ok, err, widget) ==
    [op |-> op, ok |-> ok, err |-> err, text |-> widget.text, icon |-> widget.icon]

\* TextWidget::new(config): no text and no icon yet
TextWidgetNew == [text |-> <<>>, icon |-> ""]

\* Uuid::new_v4().simple().to_string(): a fresh value for every block
Uuids == <<"uuid-1", "uuid-2", "uuid-3", "uuid-4">>

\* Path::exists of /sys/class/backlight/<device>
Exists(device) ==
    dir.present /\ \E k \in 1..Len(dir.entries) : dir.entries[k].name = device

\* a faulty variant of BacklitDevice_default: an unreadable directory is
\* reported as an empty one
BacklitDevice_default_merged ==
    IF ~dir.present \/ Len(dir.entries) = 0 THEN Err("No backlit devices found")
    ELSE IF ~dir.entries[1].ok THEN Err("Failed to read default device file")
    ELSE LET first_device == dir.entries[1].name
             max_brightness == read_brightness(maxFile[first_device])
         IN  IF ~max_brightness.ok THEN max_brightness
             ELSE [ok |-> TRUE, val |-> max_brightness.val, err |-> "",
                   device_path |-> first_device]

\* BacklitDevice::default()
BacklitDevice_default ==
    IF ~dir.present THEN Err("Failed to read backlight device directory")
    ELSE IF Len(dir.entries) = 0 THEN Err("No backlit devices found")
    ELSE IF ~dir.entries[1].ok THEN Err("Failed to read default device file")
    ELSE LET first_device == dir.entries[1].name
             max_brightness == read_brightness(maxFile[first_device])
         IN  IF ~max_brightness.ok THEN max_brightness
             ELSE [ok |-> TRUE, val |-> max_brightness.val, err |-> "",
                   device_path |-> first_device]

\* BacklitDevice::from_device(device)
BacklitDevice_from_device(device) ==
    IF ~Exists(device) THEN Err("Backlight device does not exist")
    ELSE LET max_brightness == read_brightness(maxFile[device])
         IN  IF ~max_brightness.ok THEN max_brightness
             ELSE [ok |-> TRUE, val |-> max_brightness.val, err |-> "",
                   device_path |-> device]

\* block_config.device: <<>> is None, <<name>> is Some(name)
Resolve(cfg) ==
    IF cfg = <<>> THEN BacklitDevice_default
    ELSE BacklitDevice_from_device(cfg[1])

\* a faulty variant of SpawnWatcher: the watcher is spawned twice
SpawnTwoWatchers(id, device_path) ==
    <<[id |-> id, file |-> device_path, pc |-> "init", watching |-> FALSE,
       events |-> <<>>],
      [id |-> id, file |-> device_path, pc |-> "init", watching |-> FALSE,
       events |-> <<>>]>>

\* the threads ConfigBlock::new spawns for a block: one watcher
SpawnWatcher(id, device_path) ==
    <<[id |-> id, file |-> device_path, pc |-> "init", watching |-> FALSE,
       events |-> <<>>]>>

NoHist == [writes |-> 0, modRead |-> 0, owed |-> FALSE, owedW |-> FALSE]

Panicked == \E t \in 1..Len(threads) : threads[t].pc = "panicked"

\* a call served by the scheduler context
Served == [hist EXCEPT !.servedAfterPanic = @ \/ Panicked]

\* ConfigBlock::new(block_config, config, tx_update_request)
Construct(cfg) ==
    LET device == Resolve(cfg)
        id == Uuids[Len(blocks) + 1]
    IN  IF device.ok
        THEN /\ Len(blocks) < MaxBlocks
             /\ blocks' = Append(blocks,
                    [id |-> id, output |-> TextWidgetNew,
                     device |-> [max_brightness |-> device.val,
                                 device_path |-> device.device_path]])
             /\ threads' = threads \o SpawnWatcher(id, device.device_path)
             /\ hist' = [Served EXCEPT
                           !.per = @ \o [k \in 1..Len(SpawnWatcher(id, device.device_path))
                                           |-> NoHist]]
             /\ ret' = Ret("new", TRUE, "", TextWidgetNew)
             /\ UNCHANGED <<dir, maxFile, brFile, chan>>
        ELSE /\ ret' = Ret("new", FALSE, device.err, TextWidgetNew)
             /\ hist' = Served
             /\ UNCHANGED <<dir, maxFile, brFile, blocks, threads, chan>>

(***************************************************************************)
(* Block for Backlight.                                                    *)
(***************************************************************************)
\* u64::MAX and 2^63 are beyond the integers of the checker: HugeDisplay
\* stands for them.  Only its place above every icon band is used.
HugeDisplay == 2000000000

\* `x as u64` of a double that is not finite (max_brightness = 0 gives inf
\* or NaN): saturating since Rust 1.45 (NaN -> 0, inf -> u64::MAX), undefined
\* behaviour before (x86-64 builds give 0 or 2^63)
NonFiniteCast == {0, HugeDisplay}

\* line 180: the values `display` can take
Display(brightness, max_brightness) ==
    IF max_brightness = 0 THEN NonFiniteCast
    ELSE IF brightness = 0 THEN {0}
    ELSE {TruncPercentF64(brightness, max_brightness)}

\* a faulty variant of IconOf: every band ends one percent later
IconOfLateBands(display) ==
    CASE display \in 0..20 -> "backlight_empty"
      [] display \in 21..40 -> "backlight_partial1"
      [] display \in 41..60 -> "backlight_partial2"
      [] display \in 61..80 -> "backlight_partial3"
      [] OTHER -> "backlight_full"

\* lines 182-188: match display { 0...19 => .., _ => backlight_full }
IconOf(display) ==
    CASE display \in 0..19 -> "backlight_empty"
      [] display \in 20..39 -> "backlight_partial1"
      [] display \in 40..59 -> "backlight_partial2"
      [] display \in 60..79 -> "backlight_partial3"
      [] OTHER -> "backlight_full"

\* lines 181-188: set_text(format!("{}%", display)) and set_icon
Render(output, display) ==
    [text |-> Append(FormatU64(display), "%"), icon |-> IconOf(display)]

\* a faulty variant of KeepOutput: a failed read blanks the widget
ClearOutput(output) == TextWidgetNew

\* what update() leaves in the widget when the read failed: try! returns
\* before anything is set
KeepOutput(output) == output

\* fn update(&mut self) -> Result<Option<Duration>>
Update(i) ==
    /\ i \in 1..Len(blocks)
    /\ LET self == blocks[i]
           brightness == read_brightness(brFile[self.device.device_path])
       IN  IF brightness.ok
           THEN \E display \in Display(brightness.val, self.device.max_brightness) :
                  /\ blocks' = [blocks EXCEPT ![i].output = Render(@, display)]
                  /\ ret' = Ret("update", TRUE, "", TextWidgetNew)
           ELSE /\ blocks' = [blocks EXCEPT ![i].output = KeepOutput(@)]
                /\ ret' = Ret("update", FALSE, brightness.err, TextWidgetNew)
    /\ hist' = Served
    /\ UNCHANGED <<dir, maxFile, brFile, threads, chan>>

\* fn view(&self) -> Vec<&I3BarWidget>
View(i) ==
    /\ i \in 1..Len(blocks)
    /\ ret' = Ret("view", TRUE, "", blocks[i].output)
    /\ hist' = Served
    /\ UNCHANGED <<dir, maxFile, brFile, blocks, threads, chan>>

\* a faulty variant of Click: a click blanks the widget
ClickClears(i) ==
    /\ i \in 1..Len(blocks)
    /\ blocks' = [blocks EXCEPT ![i].output = TextWidgetNew]
    /\ ret' = Ret("click", TRUE, "", TextWidgetNew)
    /\ hist' = Served
    /\ UNCHANGED <<dir, maxFile, brFile, threads, chan>>

\* fn click(&mut self, _: &I3BarEvent) -> Result<()>
Click(i) ==
    /\ i \in 1..Len(blocks)
    /\ ret' = Ret("click", TRUE, "", TextWidgetNew)
    /\ hist' = Served
    /\ UNCHANGED <<dir, maxFile, brFile, blocks, threads, chan>>

(***************************************************************************)
(* The environment: writes to a brightness file, removal of a device, and  *)
(* the inotify queue of every watch registered on the file.                *)
(***************************************************************************)
Modify == {"MODIFY"}
Ignored == {"IGNORED"}

\* the kernel queues an event; an event identical to the unread event at
\* the tail of the queue may be coalesced into it
Queue(events, mask, merge) ==
    IF merge /\ Len(events) > 0 /\ events[Len(events)] = mask THEN events
    ELSE Append(events, mask)

EnvWrite(dev, f) ==
    /\ hist.envWrites < MaxWrites
    /\ brFile[dev].kind # "absent"
    /\ brFile' = [brFile EXCEPT ![dev] = f]
    /\ \E merge \in BOOLEAN :
         threads' = [t \in 1..Len(threads) |->
                       IF threads[t].file = dev /\ threads[t].watching
                       THEN [threads[t] EXCEPT !.events = Queue(@, Modify, merge)]
                       ELSE threads[t]]
    /\ hist' = [hist EXCEPT
                  !.envWrites = @ + 1,
                  !.per = [t \in 1..Len(threads) |->
                             IF threads[t].file = dev
                             THEN [writes |-> hist.per[t].writes + 1,
                                   modRead |-> hist.per[t].modRead,
                                   owed |-> TRUE,
                                   owedW |-> hist.per[t].owedW \/ threads[t].watching]
                             ELSE hist.per[t]]]
    /\ UNCHANGED <<dir, maxFile, blocks, chan, ret>>

\* the device goes away (driver unloaded): its directory and files vanish and
\* every watch on its brightness file ends with an IN_IGNORED event
EnvRemove(dev) ==
    /\ brFile[dev].kind # "absent"
    /\ brFile' = [brFile EXCEPT ![dev] = Absent]
    /\ maxFile' = [maxFile EXCEPT ![dev] = Absent]
    /\ dir' = [dir EXCEPT !.entries = SelectSeq(@, LAMBDA e : e.name # dev)]
    /\ threads' = [t \in 1..Len(threads) |->
                     IF threads[t].file = dev /\ threads[t].watching
                     THEN [threads[t] EXCEPT !.events = Append(@, Ignored),
                                             !.watching = FALSE]
                     ELSE threads[t]]
    /\ UNCHANGED <<blocks, chan, ret, hist>>

(***************************************************************************)
(* The watcher thread of ConfigBlock::new, lines 152-171.                  *)
(***************************************************************************)
\* Inotify::init().expect(..), when it succeeds
WatcherInit(t) ==
    /\ t \in 1..Len(threads)
    /\ threads[t].pc = "init"
    /\ threads' = [threads EXCEPT ![t].pc = "add_watch"]
    /\ UNCHANGED <<dir, maxFile, brFile, blocks, chan, ret, hist>>

\* notify.add_watch(brightness_file, WatchMask::MODIFY).expect(..): a file
\* that is not there cannot be watched, and expect panics the thread
WatcherAddWatch(t) ==
    /\ t \in 1..Len(threads)
    /\ threads[t].pc = "add_watch"
    /\ threads' = IF brFile[threads[t].file].kind # "absent"
                  THEN [threads EXCEPT ![t].pc = "read", ![t].watching = TRUE]
                  ELSE [threads EXCEPT ![t].pc = "panicked"]
    /\ UNCHANGED <<dir, maxFile, brFile, blocks, chan, ret, hist>>

\* the events of a wake whose mask contains MODIFY
ModifyCount(events) == Cardinality({k \in 1..Len(events) : "MODIFY" \in events[k]})

\* a faulty variant of TasksFor: one Task for each event with MODIFY
TasksPerEvent(id, events) == [k \in 1..ModifyCount(events) |-> [id |-> id]]

\* lines 164-169: the Tasks sent for the events one wake returned
TasksFor(id, events) ==
    IF \E k \in 1..Len(events) : "MODIFY" \in events[k]
    THEN <<[id |-> id]>>
    ELSE <<>>

\* the thread states in which the loop body runs
CanRead(pc) == pc = "read"

\* one turn of the loop: read_events_blocking returns every pending event
\* (it blocks while there is none), then the send
WatcherRead(t) ==
    /\ t \in 1..Len(threads)
    /\ CanRead(threads[t].pc)
    /\ threads[t].events # <<>>
    /\ LET tasks == TasksFor(threads[t].id, threads[t].events)
       IN  /\ chan' = chan \o tasks
           /\ hist' = [hist EXCEPT
                         !.sentAfterPanic = @ \/ (Panicked /\ tasks # <<>>),
                         !.per[t].modRead = @ + ModifyCount(threads[t].events),
                         !.per[t].owed = @ /\ tasks = <<>>,
                         !.per[t].owedW = @ /\ tasks = <<>>]
    /\ threads' = [threads EXCEPT ![t].events = <<>>]
    /\ UNCHANGED <<dir, maxFile, brFile, blocks, ret>>

\* a faulty variant of Panic: the Inotify of the panicked thread is not dropped
PanicKeepsWatch(thread) == [thread EXCEPT !.pc = "panicked"]

\* expect on an Err: the panic unwinds this thread, which drops its Inotify
\* and its Sender; a panic in a spawned thread ends that thread only
Panic(thread) ==
    [thread EXCEPT !.pc = "panicked", !.watching = FALSE, !.events = <<>>]

\* an inotify call fails: init, add_watch or read_events_blocking
WatcherFail(t) ==
    /\ t \in 1..Len(threads)
    /\ threads[t].pc \in {"init", "add_watch", "read"}
    /\ threads' = [threads EXCEPT ![t] = Panic(@)]
    /\ UNCHANGED <<dir, maxFile, brFile, blocks, chan, ret, hist>>

(***************************************************************************)
(* Spec: blocks, their watchers and the environment.                       *)
(***************************************************************************)
Listings ==
    { <<>>,
      <<[name |-> "intel_backlight", ok |-> TRUE]>>,
      <<[name |-> "acpi_video0", ok |-> FALSE], [name |-> "intel_backlight", ok |-> TRUE]>>,
      <<[name |-> "intel_backlight", ok |-> TRUE], [name |-> "acpi_video0", ok |-> TRUE]>> }

Listed(entries, d) == \E k \in 1..Len(entries) : entries[k].name = d

\* block_config.device
Configs == {<<>>, <<"intel_backlight">>, <<"acpi_video0">>}

\* what the environment writes to a brightness file in Spec
SpecFiles == {Text(<<"2", NL>>)}

NoRet == Ret("none", TRUE, "", TextWidgetNew)

\* the max_brightness files of Spec: one device reports 3, the other does
\* not report a number
SpecMax ==
    [d \in Devices |-> IF d = "intel_backlight" THEN Text(<<"3", NL>>)
                                                 ELSE Text(<<"x", NL>>)]

InitWith(dirs, maxFiles) ==
    /\ dir \in dirs
    /\ maxFile \in maxFiles
    /\ \A d \in Devices : (maxFile[d] = Absent) <=> ~Listed(dir.entries, d)
    /\ brFile = [d \in Devices |->
                   IF Listed(dir.entries, d) THEN Text(<<"2", NL>>) ELSE Absent]
    /\ blocks = <<>>
    /\ threads = <<>>
    /\ chan = <<>>
    /\ ret = NoRet
    /\ hist = [per |-> <<>>, envWrites |-> 0,
               servedAfterPanic |-> FALSE, sentAfterPanic |-> FALSE]

\* every way of having some of the files of `files` absent
WithAbsent(files) ==
    {[d \in Devices |-> IF d \in gone THEN Absent ELSE files[d]] : gone \in SUBSET Devices}

Init ==
    InitWith({[present |-> FALSE, entries |-> <<>>]}
                \cup {[present |-> TRUE, entries |-> l] : l \in Listings},
             WithAbsent(SpecMax))

Next ==
    \/ \E cfg \in Configs : Construct(cfg)
    \/ \E i \in 1..MaxBlocks : Update(i)
    \/ \E i \in 1..MaxBlocks : View(i)
    \/ \E i \in 1..MaxBlocks : Click(i)
    \/ \E dev \in Devices, f \in SpecFiles : EnvWrite(dev, f)
    \/ \E dev \in Devices : EnvRemove(dev)
    \/ \E t \in 1..MaxBlocks : WatcherInit(t)
    \/ \E t \in 1..MaxBlocks : WatcherAddWatch(t)
    \/ \E t \in 1..MaxBlocks : WatcherRead(t)
    \/ \E t \in 1..MaxBlocks : WatcherFail(t)

Spec == Init /\ [][Next]_vars

(***************************************************************************)
(* FairSpec: the watcher threads are scheduled fairly and no inotify call  *)
(* fails.                                                                  *)
(***************************************************************************)
InitLive ==
    InitWith({[present |-> TRUE,
               entries |-> <<[name |-> "intel_backlight", ok |-> TRUE]>>]},
             WithAbsent(SpecMax))

WatcherStep(t) == WatcherInit(t) \/ WatcherAddWatch(t) \/ WatcherRead(t)

NextLive ==
    \/ \E cfg \in Configs : Construct(cfg)
    \/ \E i \in 1..MaxBlocks : Update(i)
    \/ \E dev \in Devices, f \in SpecFiles : EnvWrite(dev, f)
    \/ \E dev \in Devices : EnvRemove(dev)
    \/ \E t \in 1..MaxBlocks : WatcherInit(t)
    \/ \E t \in 1..MaxBlocks : WatcherAddWatch(t)
    \/ \E t \in 1..MaxBlocks : WatcherRead(t)

FairSpec ==
    InitLive /\ [][NextLive]_vars /\ \A t \in 1..MaxBlocks : WF_vars(WatcherStep(t))

(***************************************************************************)
(* SpecCalc: one block in the scheduler context, and an environment that   *)
(* writes every brightness 0..MaxBrightness and text that is not a number. *)
(* The watcher is not scheduled here, and no event history is kept.        *)
(***************************************************************************)
Line(n) == Text(Append(FormatU64(n), NL))

NotNumbers ==
    { Text(<<>>), Text(<<NL>>), Text(<<"a", "b", "c", NL>>), Text(<<"7">>),
      Text(<<"1", "2">>), Text(<<"2", "5", "5">>), Text(<<"+", "5", NL>>),
      Text(<<"-", "5", NL>>), Text(<<"0", "0", "7", NL>>), Text(<<"5", " ", NL>>),
      Text(<<"+", NL>>), Text(<<"4", "2", NL, NL>>), Binary }

CalcFiles == {Line(n) : n \in 0..MaxBrightness} \cup NotNumbers

CalcMax ==
    { [d \in Devices |-> f] :
        f \in {Line(0), Line(3), Line(100), Text(<<"7">>),
               Text(<<"x", NL>>), Text(<<>>), Binary} }

InitCalc ==
    InitWith({[present |-> TRUE,
               entries |-> <<[name |-> "intel_backlight", ok |-> TRUE]>>]},
             UNION {WithAbsent(m) : m \in CalcMax})

CalcConstruct(cfg) == Len(blocks) = 0 /\ Construct(cfg)

CalcWrite(f) ==
    /\ brFile["intel_backlight"].kind # "absent"
    /\ brFile' = [brFile EXCEPT !["intel_backlight"] = f]
    /\ UNCHANGED <<dir, maxFile, blocks, threads, chan, ret, hist>>

NextCalc ==
    \/ \E cfg \in Configs : CalcConstruct(cfg)
    \/ Update(1)
    \/ View(1)
    \/ Click(1)
    \/ \E f \in CalcFiles : CalcWrite(f)
    \/ EnvRemove("intel_backlight")

SpecCalc == InitCalc /\ [][NextCalc]_vars

(***************************************************************************)
(* What the claims are stated with.                                        *)
(***************************************************************************)
\* the Tasks on the channel that carry `id`
SentIn(c, id) == Cardinality({k \in 1..Len(c) : c[k].id = id})
Sent(id) == SentIn(chan, id)

\* the number a widget text "<p>%" shows
PercentShown(text) == ParseU64(Pop(text))

AllDigits(s) == Len(s) > 0 /\ \A k \in 1..Len(s) : s[k] \in {Digits[d] : d \in 1..10}

\* the text parse::<u64> takes for a number: digits, after at most one "+"
IsNumber(s) == AllDigits(s) \/ (Len(s) > 1 /\ s[1] = "+" /\ AllDigits(Tail(s)))

\* the value of a number, from its last digit to its first
RECURSIVE DecValue(_)
DecValue(s) ==
    IF Len(s) = 0 \/ s = <<"+">> THEN 0
    ELSE DecValue(Pop(s)) * 10 + ((CHOOSE d \in 1..10 : Digits[d] = s[Len(s)]) - 1)

\* the icon of each band of the specification
TierOf(p) ==
    IF p <= 19 THEN "backlight_empty"
    ELSE IF p <= 39 THEN "backlight_partial1"
    ELSE IF p <= 59 THEN "backlight_partial2"
    ELSE IF p <= 79 THEN "backlight_partial3"
    ELSE "backlight_full"

\* the brightness file block i reads, and the text left in it without its
\* last character
FileOf(i) == brFile[blocks[i].device.device_path]
BodyOf(file) == Pop(file.content)
Readable(file) == file.kind = "text" /\ IsNumber(BodyOf(file))

(***************************************************************************)
(* C1, C2, C5, C8, C9: update(), view(), click() and read_brightness,      *)
(* under SpecCalc.                                                         *)
(***************************************************************************)
WellFormed(text) == text = Append(FormatU64(PercentShown(text)), "%")

\* brightness / max_brightness * 100 rounded to the nearest integer
Rounded(v, m) == (200 * v + m) \div (2 * m)

\* C1: for max_brightness > 0 and brightness in [0, max_brightness] a
\* successful update() sets the text to "<p>%" with p in [0,100] the
\* percentage brightness / max_brightness * 100 rounded to the nearest
\* integer
C1_Rounds ==
    [][\A i \in 1..Len(blocks) :
         LET v == DecValue(BodyOf(FileOf(i)))
             m == blocks[i].device.max_brightness
         IN  (brFile' = brFile /\ Update(i) /\ Readable(FileOf(i)) /\ m > 0 /\ v <= m)
             => /\ Rounded(v, m) \in 0..100
                /\ blocks'[i].output.text = Append(FormatU64(Rounded(v, m)), "%")]_vars

\* What line 180 shows instead: the f64 product truncated toward zero, which
\* is floor(100 * brightness / max), or one less where that quotient is a
\* whole number and the f64 product falls just below it (29 of 100 shows
\* 28%); 0 shows 0% and max_brightness shows 100%
UpdateTruncates ==
    [][\A i \in 1..Len(blocks) :
         LET v == DecValue(BodyOf(FileOf(i)))
             m == blocks[i].device.max_brightness
             text == blocks'[i].output.text
             p == PercentShown(text)
         IN  (brFile' = brFile /\ Update(i) /\ Readable(FileOf(i)) /\ m > 0 /\ v <= m)
             => /\ WellFormed(text)
                /\ p \in 0..100
                /\ \/ p = (100 * v) \div m
                   \/ (100 * v) % m = 0 /\ p = ((100 * v) \div m) - 1
                /\ (v = 0 => p = 0)
                /\ (v = m => p = 100)]_vars

\* C2: the icon is a function of the percentage in the text and follows the
\* bands 0-19 empty, 20-39 partial1, 40-59 partial2, 60-79 partial3,
\* 80 and above full; text and icon are always those of the same update
C2_IconFollowsBands ==
    \A i \in 1..Len(blocks) :
        LET out == blocks[i].output
        IN  IF out.text = <<>> THEN out.icon = ""
            ELSE WellFormed(out.text) /\ out.icon = TierOf(PercentShown(out.text))

\* C2's case: a block shows 79% with the partial-high icon, the last
\* percentage below the full band
C2_Witness ==
    \E i \in 1..Len(blocks) :
        /\ blocks[i].output.text = <<"7", "9", "%">>
        /\ blocks[i].output.icon = "backlight_partial3"

ReaderErrors ==
    {"Failed to open brightness file", "Failed to read brightness file",
     "Failed to read value from brightness file"}

\* C5: an update() that cannot open, read or parse the brightness file
\* returns the reader's error and leaves every block (text, icon, id,
\* max_brightness), every thread and the channel as they were; an update()
\* on a readable file succeeds, whatever failed before
C5_FailedUpdateKeepsState ==
    [][\A i \in 1..Len(blocks) :
         (brFile' = brFile /\ Update(i)) =>
            IF Readable(FileOf(i))
            THEN ret'.ok /\ blocks'[i].output.text # <<>>
            ELSE /\ ~ret'.ok
                 /\ ret'.err \in ReaderErrors
                 /\ (FileOf(i).kind = "absent"
                        <=> ret'.err = "Failed to open brightness file")
                 /\ (FileOf(i).kind = "binary"
                        <=> ret'.err = "Failed to read brightness file")
                 /\ blocks' = blocks /\ threads' = threads /\ chan' = chan]_vars

\* C5's case: update() has just failed on a block that still shows the
\* percentage of an earlier update
C5_Witness ==
    /\ ret.op = "update" /\ ~ret.ok
    /\ \E i \in 1..Len(blocks) :
          ~Readable(FileOf(i)) /\ blocks[i].output.text # <<>>

\* the device directory Construct(cfg) reads max_brightness from
HasTarget(cfg) ==
    /\ dir.present
    /\ IF cfg = <<>> THEN Len(dir.entries) > 0 /\ dir.entries[1].ok
                     ELSE Exists(cfg[1])
TargetOf(cfg) == IF cfg = <<>> THEN dir.entries[1].name ELSE cfg[1]

C3_OneSignalPerEvent ==
    \A t \in 1..Len(threads) : Sent(threads[t].id) = hist.per[t].modRead

\* C3, as the code has it: the watcher sends exactly one signal, carrying its
\* block's id, for every wake whose events include at least one MODIFY,
\* however many of them, and none for a wake without MODIFY; nothing else
\* sends; so the signals are at most the MODIFY events read
C3_OneSignalPerWake ==
    [][/\ \A t \in 1..Len(threads) :
            WatcherRead(t) =>
               IF ModifyCount(threads[t].events) > 0
               THEN /\ chan' = Append(chan, [id |-> threads[t].id])
                    /\ \E i \in 1..Len(blocks) :
                          /\ blocks[i].id = threads[t].id
                          /\ blocks[i].device.device_path = threads[t].file
               ELSE chan' = chan
       /\ chan' # chan => \E t \in 1..Len(threads) : WatcherRead(t)
       /\ \A t \in 1..Len(threads) : Sent(threads[t].id) <= hist.per[t].modRead]_vars

\* C3's case: a watcher has read two MODIFY events in one wake and sent one
\* signal
C3_Witness ==
    \E t \in 1..Len(threads) :
        hist.per[t].modRead = 2 /\ Sent(threads[t].id) = 1

\* C4: every block has exactly one watcher; the signals sent with a block's
\* id are at most the writes made to its brightness file since it was
\* constructed; none is sent before a MODIFY event was read; every signal
\* carries the id of a block
C4_OneWatcherNoDuplicates ==
    /\ \A i \in 1..Len(blocks) :
          Cardinality({t \in 1..Len(threads) : threads[t].id = blocks[i].id}) = 1
    /\ \A t \in 1..Len(threads) :
          /\ Sent(threads[t].id) <= hist.per[t].writes
          /\ (hist.per[t].modRead = 0 => Sent(threads[t].id) = 0)
    /\ \A k \in 1..Len(chan) : \E i \in 1..Len(blocks) : blocks[i].id = chan[k].id

\* C4's case: two writes to a block's brightness file, each followed by its
\* own signal
C4_Witness ==
    \E t \in 1..Len(threads) :
        hist.per[t].writes = 2 /\ Sent(threads[t].id) = 2

\* C6, in the wording of the specification: once a watcher has failed no call
\* is served and no other watcher sends
C6_ProcessFatal == ~hist.servedAfterPanic /\ ~hist.sentAfterPanic

\* C6, as the code has it: a failure inside the Change Watcher ends that
\* watcher's thread only: the thread stays panicked, holds no watch and no
\* events and sends nothing more; the failure changes no block, no other
\* thread and not the channel; update() is served as before, and succeeds
\* whenever the brightness file is readable
C6_ThreadFatalOnly ==
    [][/\ \A t \in 1..Len(threads) :
            threads[t].pc = "panicked"
            => /\ threads'[t] = threads[t]
               /\ ~threads[t].watching /\ threads[t].events = <<>>
               /\ SentIn(chan', threads[t].id) = SentIn(chan, threads[t].id)
       /\ \A t \in 1..Len(threads) :
            WatcherFail(t)
            => /\ blocks' = blocks /\ chan' = chan
               /\ \A u \in 1..Len(threads) : u # t => threads'[u] = threads[u]
       /\ \A i \in 1..Len(blocks) :
            Update(i) => (ret'.ok <=> Readable(FileOf(i)))]_vars

\* C6's case: after a watcher failed, a call was served and another watcher
\* sent a signal
C6_Witness == hist.servedAfterPanic /\ hist.sentAfterPanic

\* the error of reading max_brightness of device d, "" when it reads
MaxError(d) ==
    IF maxFile[d].kind = "absent" THEN "Failed to open brightness file"
    ELSE IF maxFile[d].kind = "binary" THEN "Failed to read brightness file"
    ELSE IF ~IsNumber(BodyOf(maxFile[d])) THEN "Failed to read value from brightness file"
    ELSE ""

\* C7, for the class directory, in the wording of the specification: with no
\* device configured, an empty or an unreadable directory is a "no devices
\* found" error
C7_UnreadableIsNoDevices ==
    [][(Construct(<<>>) /\ (~dir.present \/ dir.entries = <<>>))
         => ret'.err = "No backlit devices found"]_vars

\* C7, as the code has it: construction fails with the resolver's error and
\* produces no block whenever resolution fails: no device configured and the
\* class directory unreadable ("failed to read backlight device directory"),
\* empty ("no devices found") or its first entry unreadable; a configured
\* device that does not exist; max_brightness not readable or no number. A
\* failing construction spawns no watcher and sends nothing; every thread and
\* every signal belongs to a block
C7_FailsWithResolverError ==
    [][/\ \A cfg \in Configs :
            LET want == IF cfg = <<>>
                        THEN IF ~dir.present
                             THEN "Failed to read backlight device directory"
                             ELSE IF dir.entries = <<>>
                             THEN "No backlit devices found"
                             ELSE IF ~dir.entries[1].ok
                             THEN "Failed to read default device file"
                             ELSE MaxError(dir.entries[1].name)
                        ELSE IF ~Exists(cfg[1])
                             THEN "Backlight device does not exist"
                             ELSE MaxError(cfg[1])
            IN  Construct(cfg)
                => IF want = ""
                   THEN /\ ret'.ok
                        /\ Len(blocks') = Len(blocks) + 1
                        /\ blocks'[Len(blocks')].device.device_path = TargetOf(cfg)
                   ELSE /\ ~ret'.ok /\ ret'.err = want
                        /\ blocks' = blocks /\ threads' = threads /\ chan' = chan
       /\ \A t \in 1..Len(threads) : \E i \in 1..Len(blocks) : blocks[i].id = threads[t].id
       /\ \A k \in 1..Len(chan) : \E i \in 1..Len(blocks) : blocks[i].id = chan[k].id]_vars

\* C7's case: construction with no device configured has just failed on an
\* unreadable class directory, and there is no block and no thread
C7_Witness ==
    /\ ret.op = "new" /\ ~ret.ok
    /\ ret.err = "Failed to read backlight device directory"
    /\ ~dir.present /\ blocks = <<>> /\ threads = <<>> /\ chan = <<>>

(***************************************************************************)
(* C10: writes and the signals that follow them, under FairSpec.           *)
(***************************************************************************)
Owed(t) == t <= Len(threads) /\ hist.per[t].owed
OwedW(t) == t <= Len(threads) /\ hist.per[t].owedW
Failed(t) == t <= Len(threads) /\ threads[t].pc = "panicked"

\* C10: every write to the brightness file of a constructed block is
\* eventually followed by a signal with the block's id, also a write made
\* before the watcher has registered its watch, unless an inotify call of
\* the watcher failed; and a watcher that reads events never leaves that
\* state
C10_EveryWriteSignalled ==
    /\ \A t \in 1..MaxBlocks : Owed(t) ~> (~Owed(t) \/ Failed(t))
    /\ [][\A t \in 1..Len(threads) :
            threads[t].pc = "read" => threads'[t].pc = "read"]_vars

\* What the watcher does give: a write made once the watch is registered is
\* eventually followed by a signal with the block's id
WatchedWriteSignalled == \A t \in 1..MaxBlocks : OwedW(t) ~> ~OwedW(t)

=============================================================================

